---------------------------- MODULE Spec2Model ----------------------------
(***************************************************************************)
(* Model of scripts/script.py: the emoji scanner.                          *)
(*                                                                         *)
(* The program compiles one character-class pattern and then loops over    *)
(* sys.argv[1:]; each file is opened as UTF-8 text, read whole, searched   *)
(* with the pattern, and a line is printed on a match or on an exception.  *)
(*                                                                         *)
(* Text is a sequence of Unicode code points (naturals).  A file of the    *)
(* file system is a record [kind, text]: kind "text" decodes to text, the  *)
(* other kinds make open() or read() raise.  Writes to standard output are *)
(* taken to succeed.                                                       *)
(***************************************************************************)
EXTENDS Naturals, Sequences, FiniteSets

VARIABLES
    argv,       \* sys.argv[1:], the argument list
    files,      \* the file system: path -> [kind, text]
    i,          \* position of the for loop's iterator in argv (0 = before the first)
    filename,   \* loop variable `filename`
    handles,    \* positions whose file object `f` is open
    content,    \* module-level variable `content`
    e,          \* the caught exception's description, str(e)
    output,     \* standard output: lines, each tagged with the position that printed it
    pc,         \* control point of the script
    run,        \* number of the current run of the script over the same file system
    firstOutput \* standard output of the first run, kept when the script is run again

vars == <<argv, files, i, filename, handles, content, e, output, pc, run, firstOutput>>

---------------------------------------------------------------------------
(* Bounds of the model. *)

\* longest argument list
MaxArgs == 3
\* longest file text in the scan specification
MaxLen == 2
\* longest file text in the boundary specification
MaxBoundaryLen == 2
\* how many times the script is run in the rerun specification
MaxRuns == 2

---------------------------------------------------------------------------
(* emoji_pattern: the character class and its quantifier. *)

\* The class with its last range cut short at the end of the Dingbats
\* block (mutant of Ranges).
Ranges_ShortLast ==
    << <<\H1F600, \H1F64F>>,
       <<\H1F300, \H1F5FF>>,
       <<\H1F680, \H1F6FF>>,
       <<\H1F1E0, \H1F1FF>>,
       <<\H2702,  \H27B0>>,
       <<\H24C2,  \H27BF>> >>

\* The ranges of the character class, in the order the pattern lists them.
Ranges ==
    << <<\H1F600, \H1F64F>>,      \* Emoticons
       <<\H1F300, \H1F5FF>>,      \* Symbols & Pictographs
       <<\H1F680, \H1F6FF>>,      \* Transport & Map Symbols
       <<\H1F1E0, \H1F1FF>>,      \* Flags (iOS)
       <<\H2702,  \H27B0>>,       \* Dingbats
       <<\H24C2,  \H1F251>> >>

\* A range test that leaves the upper endpoint out (mutant of InRange).
InRange_Exclusive(c, r) == r[1] <= c /\ c < r[2]

\* c lies in the range lo-hi of a character class: both ends belong to it.
InRange(c, r) == r[1] <= c /\ c <= r[2]

\* c is matched by the character class [...].
InClass(c) == \E k \in DOMAIN Ranges : InRange(c, Ranges[k])

\* The quantifier `*` (mutant of Quantifier).
Quantifier_Star == "*"

\* The quantifier that follows the class in the pattern.
Quantifier == "+"

\* Fewest repetitions a quantifier accepts: `*` none, `+` and a bare class one.
MinRepeat(q) == IF q = "*" THEN 0 ELSE 1

RECURSIVE RunLen(_, _)
\* How many consecutive class characters s holds from the 1-based
\* position p on.
RunLen(s, p) ==
    IF p <= Len(s) /\ InClass(s[p]) THEN 1 + RunLen(s, p + 1) ELSE 0

\* The result of a failed match or search (None).
NoMatch == <<>>

\* Matching the class under quantifier q at the 0-based offset pos: the
\* span <<start, end>> of the match, or None.  `+` and `*` are greedy and
\* take the whole run; a bare class takes one character.
MatchAt(q, s, pos) ==
    LET n == RunLen(s, pos + 1)
    IN  IF n >= MinRepeat(q)
        THEN <<pos, pos + (IF q = "" /\ n > 1 THEN 1 ELSE n)>>
        ELSE NoMatch

\* search with quantifier q: the match at the leftmost offset 0..len(s)
\* that has one.
SearchWith(q, s) ==
    LET hits == {pos \in 0..Len(s) : MatchAt(q, s, pos) # NoMatch}
    IN  IF hits = {} THEN NoMatch
        ELSE MatchAt(q, s, CHOOSE pos \in hits : \A o \in hits : pos <= o)

\* emoji_pattern.match: anchored at the start of the string (mutant of Search).
Search_Anchored(s) == MatchAt(Quantifier, s, 0)

\* emoji_pattern.search(s)
Search(s) == SearchWith(Quantifier, s)

\* Truth value of a search result in `if`: a match object is true, None false.
Truthy(m) == m # NoMatch

---------------------------------------------------------------------------
(* The lines the script prints. *)

\* f"File '{filename}' contains an emoji"
MatchLine(name) == <<"File '", name, "' contains an emoji">>

\* f"Error processing {filename}: {e}"
ErrorLine(name, err) == <<"Error processing ", name, ": ", err>>

\* print(line) while the loop is at position i.
Printed(line) == Append(output, [at |-> i, text |-> line])

---------------------------------------------------------------------------
(* The environment: paths, file systems and argument lists. *)

Paths == {"a.txt", "b.txt"}

\* Sequences over S of length at most n.
SeqsUpTo(S, n) == UNION {[1..k -> S] : k \in 0..n}

\* Code points of the scan specification: 'A', one below the class, an emoticon.
ScanChars == {\H41, \H24C1, \H1F600}

\* Code points of the boundary specification: every endpoint of the class,
\* the code points next to the class's gaps, 'A', a CJK ideograph and the
\* two regional indicators of a flag.
BoundaryChars ==
    {Ranges[k][1] : k \in DOMAIN Ranges} \cup {Ranges[k][2] : k \in DOMAIN Ranges}
    \cup {\H41, \H24C1, \H4E2D, \H1F1FA, \H1F1F8,
          \H1F252, \H1F2FF, \H1F650, \H1F67F, \H1F700}

\* What open() raises for a file of this kind ("" when it returns a file object).
OpenError(file) ==
    CASE file.kind = "missing" -> "No such file or directory"
      [] file.kind = "denied"  -> "Permission denied"
      [] OTHER                 -> ""

\* What f.read() raises for a file of this kind ("" when it returns the text).
ReadError(file) ==
    IF file.kind = "undecodable" THEN "'utf-8' codec can't decode byte" ELSE ""

\* The files whose text is in Texts, and the three kinds that fail.
Files(Texts) ==
    {[kind |-> "text", text |-> t] : t \in Texts}
    \cup {[kind |-> k, text |-> <<>>] : k \in {"missing", "denied", "undecodable"}}

---------------------------------------------------------------------------
(* The script. *)

\* Exit status of the interpreter: 0 at the end of the script, 1 after an
\* uncaught exception.
ExitStatus == IF pc = "aborted" THEN 1 ELSE 0

\* The state of a fresh interpreter that has compiled the pattern.
Start ==
    /\ i = 0
    /\ filename = ""
    /\ handles = {}
    /\ content = <<>>
    /\ e = ""
    /\ output = <<>>
    /\ pc = "for"
    /\ run = 1
    /\ firstOutput = <<>>

\* Any argument list over any file system with short texts.
Init ==
    /\ argv \in SeqsUpTo(Paths, MaxArgs)
    /\ files \in [Paths -> Files(SeqsUpTo(ScanChars, MaxLen))]
    /\ Start

\* One argument at most, over a file system whose files are all the same
\* file, its text drawn from the boundary code points.
InitBoundary ==
    /\ argv \in SeqsUpTo(Paths, 1)
    /\ \E file \in Files(SeqsUpTo(BoundaryChars, MaxBoundaryLen)) :
          files = [p \in Paths |-> file]
    /\ Start

\* A loop that skips a path it has already taken (mutant of ForNext).
ForNext_Dedup ==
    /\ pc = "for"
    /\ IF i < Len(argv)
       THEN /\ i' = i + 1
            /\ filename' = argv[i + 1]
            /\ pc' = IF \E k \in 1..i : argv[k] = argv[i + 1] THEN "for" ELSE "open"
       ELSE /\ pc' = "done"
            /\ UNCHANGED <<i, filename>>
    /\ UNCHANGED <<argv, files, handles, content, e, output, run, firstOutput>>

\* for filename in sys.argv[1:]: take the next argument, or fall off the
\* end of the script.
ForNext ==
    /\ pc = "for"
    /\ IF i < Len(argv)
       THEN /\ i' = i + 1
            /\ filename' = argv[i + 1]
            /\ pc' = "open"
       ELSE /\ pc' = "done"
            /\ UNCHANGED <<i, filename>>
    /\ UNCHANGED <<argv, files, handles, content, e, output, run, firstOutput>>

\* open(filename, 'r', encoding='utf-8'): raises, or enters the with block.
Open ==
    /\ pc = "open"
    /\ IF OpenError(files[filename]) # ""
       THEN /\ e' = OpenError(files[filename])
            /\ pc' = "except"
            /\ UNCHANGED handles
       ELSE /\ handles' = handles \cup {i}
            /\ pc' = "read"
            /\ UNCHANGED e
    /\ UNCHANGED <<argv, files, i, filename, content, output, run, firstOutput>>

\* f.read() that leaves the file open when it raises (mutant of Read).
Read_Leak ==
    /\ pc = "read"
    /\ IF ReadError(files[filename]) # ""
       THEN /\ e' = ReadError(files[filename])
            /\ pc' = "except"
            /\ UNCHANGED <<handles, content>>
       ELSE /\ content' = files[filename].text
            /\ pc' = "search"
            /\ UNCHANGED <<handles, e>>
    /\ UNCHANGED <<argv, files, i, filename, output, run, firstOutput>>

\* content += f.read(): the text of the earlier files stays in content
\* (mutant of Read).
Read_Accumulate ==
    /\ pc = "read"
    /\ IF ReadError(files[filename]) # ""
       THEN /\ e' = ReadError(files[filename])
            /\ handles' = handles \ {i}
            /\ pc' = "except"
            /\ UNCHANGED content
       ELSE /\ content' = content \o files[filename].text
            /\ pc' = "search"
            /\ UNCHANGED <<handles, e>>
    /\ UNCHANGED <<argv, files, i, filename, output, run, firstOutput>>

\* content = f.read(): binds the decoded text, or raises; the with
\* statement closes f on the way out of a raise.
Read ==
    /\ pc = "read"
    /\ IF ReadError(files[filename]) # ""
       THEN /\ e' = ReadError(files[filename])
            /\ handles' = handles \ {i}
            /\ pc' = "except"
            /\ UNCHANGED content
       ELSE /\ content' = files[filename].text
            /\ pc' = "search"
            /\ UNCHANGED <<handles, e>>
    /\ UNCHANGED <<argv, files, i, filename, output, run, firstOutput>>

\* The print without its `if` (mutant of SearchPrint).
SearchPrint_Always ==
    /\ pc = "search"
    /\ output' = Printed(MatchLine(filename))
    /\ pc' = "close"
    /\ UNCHANGED <<argv, files, i, filename, handles, content, e, run, firstOutput>>

\* if emoji_pattern.search(content): print(...)
SearchPrint ==
    /\ pc = "search"
    /\ output' = IF Truthy(Search(content))
                 THEN Printed(MatchLine(filename))
                 ELSE output
    /\ pc' = "close"
    /\ UNCHANGED <<argv, files, i, filename, handles, content, e, run, firstOutput>>

\* The end of the with block: f is closed.
Close ==
    /\ pc = "close"
    /\ handles' = handles \ {i}
    /\ pc' = "for"
    /\ UNCHANGED <<argv, files, i, filename, content, e, output, run, firstOutput>>

\* An exception that is not caught: the interpreter exits with a
\* traceback (mutant of Except).
Except_Propagate ==
    /\ pc = "except"
    /\ pc' = "aborted"
    /\ UNCHANGED <<argv, files, i, filename, handles, content, e, output, run, firstOutput>>

\* A handler that tries the same path again (mutant of Except).
Except_Retry ==
    /\ pc = "except"
    /\ output' = Printed(ErrorLine(filename, e))
    /\ pc' = "open"
    /\ UNCHANGED <<argv, files, i, filename, handles, content, e, run, firstOutput>>

\* except Exception as e: print(f"Error processing {filename}: {e}")
Except ==
    /\ pc = "except"
    /\ output' = Printed(ErrorLine(filename, e))
    /\ pc' = "for"
    /\ UNCHANGED <<argv, files, i, filename, handles, content, e, run, firstOutput>>

\* The script is started again on the same arguments and file system: a
\* fresh interpreter, with the first run's standard output kept aside.
Rerun ==
    /\ pc = "done"
    /\ run < MaxRuns
    /\ run' = run + 1
    /\ firstOutput' = IF run = 1 THEN output ELSE firstOutput
    /\ i' = 0
    /\ filename' = ""
    /\ handles' = {}
    /\ content' = <<>>
    /\ e' = ""
    /\ output' = <<>>
    /\ pc' = "for"
    /\ UNCHANGED <<argv, files>>

Next == ForNext \/ Open \/ Read \/ SearchPrint \/ Close \/ Except

NextRerun == Next \/ Rerun

\* One run of the script.
Spec == Init /\ [][Next]_vars

\* One run; the interpreter always takes its next step.
FairSpec == Init /\ [][Next]_vars /\ WF_vars(Next)

\* One run on a single file with text over the boundary code points.
SpecBoundary == InitBoundary /\ [][Next]_vars

\* The script run MaxRuns times over the same unchanged file system.
SpecRerun == Init /\ [][NextRerun]_vars

---------------------------------------------------------------------------
(* Vocabulary of the properties. *)

\* The six inclusive ranges the specification lists as qualifying.
ListedRanges ==
    { <<\H1F600, \H1F64F>>, <<\H1F300, \H1F5FF>>, <<\H1F680, \H1F6FF>>,
      <<\H1F1E0, \H1F1FF>>, <<\H2702, \H27B0>>, <<\H24C2, \H1F251>> }

\* c is a qualifying character.
Qualifies(c) == \E r \in ListedRanges : r[1] <= c /\ c <= r[2]

\* Text t holds a qualifying character somewhere.
HasQualifying(t) == \E j \in DOMAIN t : Qualifies(t[j])

\* The file the k-th argument names.
FileAt(k) == files[argv[k]]

\* The k-th argument's file is read successfully as UTF-8.
ReadOk(k) == FileAt(k).kind = "text"

\* The scan is through with the k-th argument.
Completed(k) == k < i \/ (k = i /\ pc \in {"for", "done", "aborted"})

\* The lines printed for the k-th argument, in the order printed.
LinesAt(k) ==
    LET sel == SelectSeq(output, LAMBDA o : o.at = k)
    IN  [j \in DOMAIN sel |-> sel[j].text]

\* The lines of an output, without the positions.
Texts(out) == [j \in DOMAIN out |-> out[j].text]

\* line is `File '<path>' contains an emoji` for the k-th argument.
IsMatchLineFor(line, k) == line = <<"File '", argv[k], "' contains an emoji">>

\* line is `Error processing <path>: <description>` for the k-th argument.
IsErrorLineFor(line, k) ==
    /\ Len(line) = 4
    /\ line[1] = "Error processing "
    /\ line[2] = argv[k]
    /\ line[3] = ": "
    /\ line[4] # ""

\* What the k-th argument's own file calls for has been printed for it:
\* one match line, nothing, or one error line.
OwnVerdict(k) ==
    IF ReadOk(k)
    THEN IF HasQualifying(FileAt(k).text)
         THEN Len(LinesAt(k)) = 1 /\ IsMatchLineFor(LinesAt(k)[1], k)
         ELSE LinesAt(k) = <<>>
    ELSE Len(LinesAt(k)) = 1 /\ IsErrorLineFor(LinesAt(k)[1], k)

---------------------------------------------------------------------------
(* Properties. *)

\* C1: a path whose file is read successfully and holds a qualifying
\* character anywhere, any number of times, gets exactly one line
\* `File '<path>' contains an emoji` for that occurrence of the path.
C1_MatchReported ==
    \A k \in DOMAIN argv :
        Completed(k) /\ ReadOk(k) /\ HasQualifying(FileAt(k).text)
            => Len(LinesAt(k)) = 1 /\ IsMatchLineFor(LinesAt(k)[1], k)

\* A file whose qualifying character is not its first character has been
\* scanned and reported.
C1_Witness ==
    \E k \in DOMAIN argv :
        /\ Completed(k) /\ ReadOk(k)
        /\ Len(FileAt(k).text) >= 2
        /\ ~Qualifies(FileAt(k).text[1])
        /\ Qualifies(FileAt(k).text[Len(FileAt(k).text)])
        /\ Len(LinesAt(k)) = 1 /\ IsMatchLineFor(LinesAt(k)[1], k)

\* C2: a path whose file is read successfully and holds no qualifying
\* character (the empty file included) gets no line at all, neither a
\* match line nor an error line.
C2_CleanSilent ==
    \A k \in DOMAIN argv :
        Completed(k) /\ ReadOk(k) /\ ~HasQualifying(FileAt(k).text)
            => LinesAt(k) = <<>>

\* An empty file and a non-empty clean file have both been scanned in
\* silence.
C2_Witness ==
    /\ \E k \in DOMAIN argv :
          Completed(k) /\ ReadOk(k) /\ FileAt(k).text = <<>> /\ LinesAt(k) = <<>>
    /\ \E k \in DOMAIN argv :
          /\ Completed(k) /\ ReadOk(k)
          /\ FileAt(k).text # <<>> /\ ~HasQualifying(FileAt(k).text)
          /\ LinesAt(k) = <<>>

\* C3: a path whose open or read fails gets exactly one line
\* `Error processing <path>: <description>` and no match line; the scan
\* ends only after the last path, and every later path gets what its own
\* file calls for.
C3_ErrorRecovered ==
    /\ \A k \in DOMAIN argv :
          Completed(k) /\ ~ReadOk(k)
              => /\ Len(LinesAt(k)) = 1
                 /\ IsErrorLineFor(LinesAt(k)[1], k)
                 /\ \A m \in (k + 1)..Len(argv) : Completed(m) => OwnVerdict(m)
    /\ pc \in {"done", "aborted"} => i = Len(argv)

\* A failed read has been reported, and a later file has been matched
\* after it.
C3_Witness ==
    \E k, m \in DOMAIN argv :
        /\ k < m /\ Completed(m)
        /\ FileAt(k).kind = "undecodable"
        /\ Len(LinesAt(k)) = 1 /\ IsErrorLineFor(LinesAt(k)[1], k)
        /\ ReadOk(m) /\ Len(LinesAt(m)) = 1 /\ IsMatchLineFor(LinesAt(m)[1], m)

\* The k-th argument's file calls for a line: it matches or it fails.
Noisy(k) == ~ReadOk(k) \/ HasQualifying(FileAt(k).text)

\* The positions among the first n arguments whose files call for a line.
NoisyUpTo(n) == {k \in 1..n : Noisy(k)}

\* C4, as stated: the scan prints one line per path, in input order; the
\* number of lines equals the number of paths and the j-th line concerns
\* the j-th path.
C4_OneLinePerPath ==
    pc = "done" =>
        /\ Len(output) = Len(argv)
        /\ \A j \in DOMAIN output : output[j].at = j

\* C4, amended: the scan prints at most one line per path, in input
\* order; the number of lines equals the number of paths whose file
\* matched or failed, and the j-th line concerns the j-th such path.
C4_OneLinePerNoisyPath ==
    /\ \A k \in DOMAIN argv : Len(LinesAt(k)) <= 1
    /\ pc = "done" =>
          /\ Len(output) = Cardinality(NoisyUpTo(Len(argv)))
          /\ \A j \in DOMAIN output :
                /\ Noisy(output[j].at)
                /\ Cardinality(NoisyUpTo(output[j].at)) = j

\* A finished scan of a full argument list that printed fewer lines than
\* it has paths, and at least one.
C4_Witness ==
    /\ pc = "done"
    /\ Len(argv) = MaxArgs
    /\ 0 < Len(output) /\ Len(output) < Len(argv)
    /\ ~Noisy(1) /\ Noisy(Len(argv))

\* C5: the emitted lines follow the input order: a line for an earlier
\* position is printed before a line for a later one, each line names the
\* path at its position, and a path given twice is processed at both of
\* its positions.
C5_InputOrder ==
    /\ \A a, b \in DOMAIN output : a < b => output[a].at <= output[b].at
    /\ \A a \in DOMAIN output :
          /\ output[a].at \in 1..i
          /\ output[a].text[2] = argv[output[a].at]
    /\ \A k, m \in DOMAIN argv :
          k < m /\ argv[k] = argv[m] /\ Completed(m)
              => LinesAt(m) = LinesAt(k) /\ (Noisy(k) => Len(LinesAt(m)) = 1)

\* A path given twice around another path has printed its line twice,
\* with the other path's line between them.
C5_Witness ==
    /\ Len(argv) >= 3 /\ pc = "done"
    /\ argv[1] = argv[3] /\ argv[1] # argv[2]
    /\ Len(output) = 3
    /\ output[1].text = output[3].text /\ output[1].text # output[2].text

\* C9: at most one file handle is open at any point; the handle of a path
\* is released, whether reading succeeded or failed, before the next
\* one is acquired, and none is open once the scan has finished.
C9_OneHandle ==
    /\ Cardinality(handles) <= 1
    /\ handles \subseteq {i}
    /\ pc \in {"for", "open", "except", "done", "aborted"} => handles = {}
    /\ pc \in {"read", "search", "close"} => handles = {i}

\* The handle of a later path is open after an earlier path failed in
\* read and another was read to its end.
C9_Witness ==
    /\ pc = "read" /\ i = 3 /\ handles = {3}
    /\ \E k \in 1..2 : FileAt(k).kind = "undecodable"
    /\ \E k \in 1..2 : ReadOk(k)

\* C6: for any argument list, the empty one included, and any per-file
\* outcomes, the scan terminates in the normal-completion state with exit
\* status 0 after visiting every path exactly once: the cursor moves one
\* position at a time, each open is the one open of a new position, and
\* no error or match leads to an aborted state.
C6_Terminates ==
    /\ <>(pc = "done")
    /\ [](pc \in {"done", "aborted"}
            => pc = "done" /\ ExitStatus = 0 /\ i = Len(argv))
    /\ [][i' = i \/ (i' = i + 1 /\ pc = "for" /\ i < Len(argv))]_vars
    /\ [][pc' = "open" /\ pc' # pc
            => pc = "for" /\ i' = i + 1 /\ filename' = argv[i']]_vars

\* A full argument list has been scanned to its normal end with both an
\* error line and a match line printed.
C6_Witness ==
    /\ pc = "done" /\ ExitStatus = 0
    /\ i = Len(argv) /\ Len(argv) = MaxArgs
    /\ \E k \in DOMAIN argv : ~ReadOk(k) /\ Len(LinesAt(k)) = 1
    /\ \E k \in DOMAIN argv : ReadOk(k) /\ Len(LinesAt(k)) = 1

\* The lines, with the path each names blanked.
Shape(lines) == [j \in DOMAIN lines |-> [lines[j] EXCEPT ![2] = ""]]

\* C7: the scan is deterministic in its inputs: a second run over the same
\* argument list and unchanged files prints, line for line, what the
\* first run printed; and what is printed for a path is decided by that
\* path's file alone, so two positions with equal files get equal lines
\* up to the path named.
C7_Deterministic ==
    /\ run > 1 =>
          /\ Len(output) <= Len(firstOutput)
          /\ output = SubSeq(firstOutput, 1, Len(output))
          /\ pc = "done" => Texts(output) = Texts(firstOutput)
    /\ \A k, m \in DOMAIN argv :
          Completed(k) /\ Completed(m) /\ FileAt(k) = FileAt(m)
              => Shape(LinesAt(k)) = Shape(LinesAt(m))

\* A second run has ended with the first run's lines, after a clean file
\* was scanned both before and after a matching one.
C7_Witness ==
    /\ run = 2 /\ pc = "done"
    /\ Len(output) >= 1 /\ Texts(output) = Texts(firstOutput)
    /\ \E k, l, m \in DOMAIN argv :
          /\ k < l /\ l < m
          /\ ReadOk(k) /\ ~Noisy(k) /\ FileAt(m) = FileAt(k)
          /\ ReadOk(l) /\ Noisy(l)

\* The endpoints of the six listed ranges.
Endpoints == UNION {{r[1], r[2]} : r \in ListedRanges}

\* C8: range endpoints are inclusive and exact: a file whose only
\* qualifying character is an endpoint of one of the six ranges is
\* reported, and a file whose only non-ASCII character is U+24C1 or
\* U+1F2FF is not.
C8_Endpoints ==
    \A k \in DOMAIN argv :
        Completed(k) /\ ReadOk(k) =>
            LET t == FileAt(k).text
                Q == {j \in DOMAIN t : Qualifies(t[j])}
                N == {j \in DOMAIN t : t[j] > 127}
            IN  /\ Cardinality(Q) = 1 /\ (\A j \in Q : t[j] \in Endpoints)
                      => Len(LinesAt(k)) = 1 /\ IsMatchLineFor(LinesAt(k)[1], k)
                /\ Cardinality(N) = 1 /\ (\A j \in N : t[j] \in {\H24C1, \H1F2FF})
                      => LinesAt(k) = <<>>

\* A file whose only qualifying character is the upper endpoint of a
\* range that no other range covers has been reported.
C8_Witness ==
    \E k \in DOMAIN argv :
        /\ Completed(k) /\ ReadOk(k)
        /\ FileAt(k).text = <<\H41, \H1F64F>>
        /\ Len(LinesAt(k)) = 1 /\ IsMatchLineFor(LinesAt(k)[1], k)

\* The four intervals the class is said to amount to.
InUnion(c) ==
    \/ \H24C2 <= c /\ c <= \H1F251
    \/ \H1F300 <= c /\ c <= \H1F5FF
    \/ \H1F600 <= c /\ c <= \H1F64F
    \/ \H1F680 <= c /\ c <= \H1F6FF

\* Every endpoint of the class and of the four intervals, its two
\* neighbours, and the boundary code points.
SampleCodePoints ==
    BoundaryChars \cup UNION {{c - 1, c, c + 1} : c \in Endpoints}

\* C10: the class accepts exactly [U+24C2, U+1F251], [U+1F300, U+1F5FF],
\* [U+1F600, U+1F64F] and [U+1F680, U+1F6FF]; the Dingbats and the
\* regional-indicator ranges add no character to the rest of the class;
\* every character from U+24C2 to U+1F251 makes a file match; and a search
\* for a run of one or more class characters succeeds exactly when a
\* search for one class character does.
C10_ClassIsUnion ==
    /\ \A c \in SampleCodePoints : InClass(c) <=> InUnion(c)
    /\ \A c \in SampleCodePoints :
          InClass(c) <=> \E n \in DOMAIN Ranges \ {4, 5} : InRange(c, Ranges[n])
    /\ \A k \in DOMAIN argv :
          /\ Completed(k) /\ ReadOk(k)
          /\ \E j \in DOMAIN FileAt(k).text :
                \H24C2 <= FileAt(k).text[j] /\ FileAt(k).text[j] <= \H1F251
          => Len(LinesAt(k)) = 1 /\ IsMatchLineFor(LinesAt(k)[1], k)
    /\ \A p \in Paths :
          files[p].kind = "text"
              => (Truthy(Search(files[p].text))
                    <=> Truthy(SearchWith("", files[p].text)))

\* A file whose only non-ASCII character is a CJK ideograph has been
\* reported.
C10_Witness ==
    \E k \in DOMAIN argv :
        /\ Completed(k) /\ ReadOk(k)
        /\ FileAt(k).text = <<\H4E2D, \H41>>
        /\ Len(LinesAt(k)) = 1 /\ IsMatchLineFor(LinesAt(k)[1], k)

=============================================================================
